---- MODULE Spec2Model ----
(***************************************************************************)
(* cargo.nvim: the interactive subprocess orchestrator                     *)
(* (src/src/cargo_commands.rs, execute_cargo_command_internal and its      *)
(* wrappers) together with the process-wide input sender and send_input    *)
(* (src/src/lua_exports.rs).                                               *)
(*                                                                         *)
(* Text is modelled as a sequence of one-character strings, so that        *)
(* substring, suffix and trim tests and format!() are computed, not        *)
(* assumed.  Durations are whole seconds.                                  *)
(***************************************************************************)
EXTENDS Integers, Sequences, FiniteSets, TLC

----------------------------------------------------------------------------
(* Bounds of the model *)

\* lines the child (or a process that inherited its pipes) writes to stdout
\* and stderr together
MaxLines == 2
\* send_input calls in the relay specification
MaxSends == 2
\* send_input calls in the input-queue specification
MaxQueueSends == 34
\* seconds the clock advances in one step
TickSecs == 120
\* the longest timeout a caller supplies, seconds
MaxSuppliedSecs == 2
\* calls of an entry point, one after the other, in the sessions specification
MaxSessions == 2
\* interrupt() calls
MaxInterrupts == 1
\* the clock stops advancing at this many seconds
MaxClockSecs == 1500

----------------------------------------------------------------------------
(* Program constants *)

\* mpsc::channel::<String>(32)
ChannelCapacity == 32
\* tokio::time::timeout(Duration::from_secs(5), output_handle)
CollectTimeoutSecs == 5
\* Duration::from_secs(command_timeout.as_secs() * 3)
InteractiveFactor == 3
RunTimeoutSecs == 300
TestTimeoutSecs == 300
BenchTimeoutSecs == 600
DefaultTimeoutSecs == 120

----------------------------------------------------------------------------
(* Text *)

NL == "\n"
EmptyText == << >>

\* command names
CmdRun == <<"r", "u", "n">>
CmdTest == <<"t", "e", "s", "t">>
CmdBench == <<"b", "e", "n", "c", "h">>
CmdCheck == <<"c", "h", "e", "c", "k">>
CmdBuild == <<"b", "u", "i", "l", "d">>
CmdHelp == <<"h", "e", "l", "p">>
CmdAutodd == <<"a", "u", "t", "o", "d", "d">>

\* char::is_whitespace, for the characters that occur in the model
Whitespace == {" ", "\t", "\n", "\r"}

\* str::contains
Contains(s, sub) ==
    \E i \in 1..(Len(s) - Len(sub) + 1) : SubSeq(s, i, i + Len(sub) - 1) = sub

\* str::ends_with
EndsWith(s, suf) ==
    /\ Len(suf) <= Len(s)
    /\ SubSeq(s, Len(s) - Len(suf) + 1, Len(s)) = suf

\* str::trim().is_empty()
TrimIsEmpty(s) == \A i \in 1..Len(s) : s[i] \in Whitespace

IsPrefix(s, t) == Len(s) <= Len(t) /\ SubSeq(t, 1, Len(s)) = s

\* the decimal digits of a natural number, as {} formats a u64
RECURSIVE Decimal(_)
Decimal(n) ==
    LET d == <<"0", "1", "2", "3", "4", "5", "6", "7", "8", "9">>[(n % 10) + 1]
    IN  IF n < 10 THEN <<d>> ELSE Append(Decimal(n \div 10), d)

\* the lines of a transcript: the pieces between line terminators
RECURSIVE SplitLines(_, _, _)
SplitLines(s, i, cur) ==
    IF i > Len(s) THEN (IF cur = << >> THEN << >> ELSE <<cur>>)
    ELSE IF s[i] = NL THEN <<cur>> \o SplitLines(s, i + 1, << >>)
    ELSE SplitLines(s, i + 1, Append(cur, s[i]))

Lines(s) == SplitLines(s, 1, << >>)

----------------------------------------------------------------------------
(* The interactivity heuristic, cargo_commands.rs:153-162 *)

PatYesNo == <<"?", " ", "[", "Y", "/", "n", "]">>
PatPassword ==
    <<"E", "n", "t", "e", "r", " ", "p", "a", "s", "s", "w", "o", "r", "d", ":">>
PatPrompt == <<">", " ">>
PatStep == <<"[", "1", "/", "3", "]">>
PatQuestion == <<"?", " ">>

\* the five prompt patterns of the heuristic
MatchesPattern(line) ==
    \/ Contains(line, PatYesNo)
    \/ Contains(line, PatPassword)
    \/ Contains(line, PatPrompt)
    \/ Contains(line, PatStep)
    \/ EndsWith(line, PatQuestion)

\* the condition of the if at 153-160, without the !is_interactive guard
Detect(line) == MatchesPattern(line) \/ TrimIsEmpty(line)

----------------------------------------------------------------------------
(* Results: LuaResult<(String, bool)> *)

TxtCargo ==
    <<"c", "a", "r", "g", "o", " ">>
TxtFailed ==
    <<" ", "f", "a", "i", "l", "e", "d", ":", " ">>
TxtTimedOutAfter ==
    <<" ", "t", "i", "m", "e", "d", " ", "o", "u", "t", " ", "a", "f", "t",
      "e", "r", " ">>
TxtSeconds ==
    <<" ", "s", "e", "c", "o", "n", "d", "s">>
TxtFailedToExecute ==
    <<"F", "a", "i", "l", "e", "d", " ", "t", "o", " ", "e", "x", "e", "c",
      "u", "t", "e", " ", "c", "a", "r", "g", "o", " ">>
TxtColon ==
    <<":", " ">>
\* the grave accent, which a TLA+ string cannot hold
Backtick == "U+0060"
FinishedMessage ==
    <<"F", "i", "n", "i", "s", "h", "e", "d", " ", Backtick, "d", "e", "v",
      Backtick, " ", "p", "r", "o", "f", "i", "l", "e", " ", "[", "u", "n", "o", "p",
      "t", "i", "m", "i", "z", "e", "d", " ", "+", " ", "d", "e", "b", "u",
      "g", "i", "n", "f", "o", "]", " ", "t", "a", "r", "g", "e", "t", "(",
      "s", ")", " ", "i", "n", " ", "0", ".", "0", "0", "s">>
\* the text of the io::Error of a failed spawn
OsErrorNotFound ==
    <<"N", "o", " ", "s", "u", "c", "h", " ", "f", "i", "l", "e", " ", "o",
      "r", " ", "d", "i", "r", "e", "c", "t", "o", "r", "y", " ", "(", "o",
      "s", " ", "e", "r", "r", "o", "r", " ", "2", ")">>

\* the messages of cargo_autodd, cargo_commands.rs:458-469
TxtFailedToCheck ==
    <<"F", "a", "i", "l", "e", "d", " ", "t", "o", " ", "c", "h", "e", "c",
      "k", " ", "c", "a", "r", "g", "o", " ", "c", "o", "m", "m", "a", "n",
      "d", "s", ":", " ">>
TxtInstallHint ==
    <<"c", "a", "r", "g", "o", "-", "a", "u", "t", "o", "d", "d", " ", "i",
      "s", " ", "n", "o", "t", " ", "i", "n", "s", "t", "a", "l", "l", "e",
      "d", ".", " ", "P", "l", "e", "a", "s", "e", " ", "i", "n", "s", "t",
      "a", "l", "l", " ", "i", "t", " ", "w", "i", "t", "h", " ", "'", "c",
      "a", "r", "g", "o", " ", "i", "n", "s", "t", "a", "l", "l", " ", "c",
      "a", "r", "g", "o", "-", "a", "u", "t", "o", "d", "d", "'">>

NoResult == [tag |-> "None", text |-> EmptyText, interactive |-> FALSE]
Ok(text, interactive) == [tag |-> "Ok", text |-> text, interactive |-> interactive]
\* Err(LuaError::RuntimeError(msg))
Err(msg) == [tag |-> "Err", text |-> msg, interactive |-> FALSE]

\* format!("Failed to execute cargo {}: {}", command, e)
SpawnFailedMessage(cmd, e) == TxtFailedToExecute \o cmd \o TxtColon \o e

\* format!("cargo {} timed out after {} seconds", command, command_timeout.as_secs())
TimedOutMessage(cmd, secs) ==
    TxtCargo \o cmd \o TxtTimedOutAfter \o Decimal(secs) \o TxtSeconds

\* format!("cargo {} failed: {}", command, final_output)
FailedMessage(cmd, final_output) == TxtCargo \o cmd \o TxtFailed \o final_output

\* Option<Duration>
None == << >>
Some(d) == <<d>>

\* the effective timeout with the caller's duration ignored
CommandTimeoutMutIgnoreArg(cmd, timeout_duration) ==
    IF cmd \in {CmdRun, CmdTest} THEN RunTimeoutSecs
    ELSE IF cmd = CmdBench THEN BenchTimeoutSecs
    ELSE DefaultTimeoutSecs

\* timeout_duration.unwrap_or_else(..), cargo_commands.rs:79-86
CommandTimeout(cmd, timeout_duration) ==
    IF timeout_duration # None THEN timeout_duration[1]
    ELSE IF cmd = CmdRun THEN RunTimeoutSecs
    ELSE IF cmd = CmdTest THEN TestTimeoutSecs
    ELSE IF cmd = CmdBench THEN BenchTimeoutSecs
    ELSE DefaultTimeoutSecs

\* "Process the results" with the two tests in the other order
ProcessResultsMutFailedFirst(cmd, secs, process_success, process_timeout, final_output, is_interactive_mode) ==
    IF ~process_success /\ ~is_interactive_mode
    THEN Err(FailedMessage(cmd, final_output))
    ELSE IF process_timeout /\ ~is_interactive_mode
    THEN Err(TimedOutMessage(cmd, secs))
    ELSE Ok(final_output, is_interactive_mode)

\* "Process the results", cargo_commands.rs:235-256
ProcessResults(cmd, secs, process_success, process_timeout, final_output, is_interactive_mode) ==
    IF process_timeout /\ ~is_interactive_mode
    THEN Err(TimedOutMessage(cmd, secs))
    ELSE IF ~process_success /\ ~is_interactive_mode
    THEN Err(FailedMessage(cmd, final_output))
    ELSE Ok(final_output, is_interactive_mode)

\* cargo_check without the substitution of the canned message
CargoCheckMutNoDefault(result) == result

\* cargo_check, cargo_commands.rs:260-273
CargoCheck(result) ==
    IF result.tag = "Ok" /\ TrimIsEmpty(result.text)
    THEN Ok(FinishedMessage, result.interactive)
    ELSE result

\* execute_cargo_command_smart, cargo_commands.rs:276-292
ExecuteCargoCommandSmart(cmd, result) ==
    IF result.tag = "Err" THEN result
    ELSE IF cmd = CmdRun THEN Ok(result.text, TRUE)
    ELSE result

\* cargo_run, cargo_commands.rs:305-323
CargoRun(result, has_proconio) ==
    IF result.tag = "Err" THEN result
    ELSE IF has_proconio THEN Ok(result.text, TRUE)
    ELSE result

\* the entry point of each command: cargo_bench, cargo_build, cargo_test go
\* through execute_cargo_command_smart, cargo_check and cargo_run have their
\* own post-processing, the others return the result unchanged
CargoEntry(cmd, result, has_proconio) ==
    IF cmd = CmdCheck THEN CargoCheck(result)
    ELSE IF cmd = CmdRun THEN CargoRun(result, has_proconio)
    ELSE IF cmd \in {CmdBench, CmdBuild, CmdTest}
    THEN ExecuteCargoCommandSmart(cmd, result)
    ELSE result

----------------------------------------------------------------------------
(* State *)

VARIABLES
    pc,               \* execute_cargo_command_internal: "idle", "wait" (the
                      \* select at 208), "collect" (the await at 223), "returned"
    session,          \* number of children spawned so far
    command,          \* the command of the call
    command_timeout,  \* the effective timeout, seconds
    process_status,   \* <<succeeded, timed out>>, set by the select at 208
    collected,        \* which arm of the match at 223 produced output_result
    result,           \* what execute_cargo_command_internal returned
    lua_result,       \* what the command's entry point returned
    elapsed,          \* seconds since the child was spawned
    collectStart,     \* value of elapsed when the await at 223 began
    child,            \* "none", "running", "exited", "killed"
    exit_success,     \* ExitStatus::success() of an exited child
    held,             \* a process that inherited the pipes outlives the child
    stdoutLines,      \* every line written to the stdout pipe, in order
    stdoutRead,       \* how many of them stdout_reader has returned
    stdoutClosed,     \* every write end of the stdout pipe is closed
    stderrLines,
    stderrRead,
    stderrClosed,
    childStdin,       \* the fragments written to the child's stdin, in order
    aggPc,            \* output_handle: "none", "select", "done"
    combined_output,  \* the aggregator's transcript
    is_interactive,   \* the aggregator's flag
    aggTimedOut,      \* third component of the aggregator's result
    INPUT_SENDER,     \* 0 for None, else the session whose sender is installed
    queue,            \* the mpsc channel's buffer
    relayPc,          \* stdin_handle: "none", "recv", "write", "failed", "aborted"
    relayInput,       \* the fragment taken by rx.recv()
    sendLog,          \* one entry per send_input call, in call order
    timeout_arg,      \* the timeout_duration argument of the call
    check_output,     \* cargo_autodd: what `cargo --list` gave, if it was run
    interrupts,       \* number of interrupt() calls so far
    detached          \* an output_handle whose JoinHandle was dropped before
                      \* the task ended: "none", "select", "done"

sessionVars ==
    <<pc, session, command, command_timeout, process_status, collected, result,
      lua_result, elapsed, collectStart>>
childVars ==
    <<child, exit_success, held, stdoutLines, stdoutClosed, stderrLines,
      stderrClosed>>
aggVars == <<aggPc, combined_output, is_interactive, aggTimedOut, stdoutRead, stderrRead>>
relayVars == <<INPUT_SENDER, queue, relayPc, relayInput, sendLog, childStdin>>
callerVars == <<timeout_arg, check_output, interrupts, detached>>
vars == <<sessionVars, childVars, aggVars, relayVars, callerVars>>

\* commands called in the session specification
Commands == {CmdRun, CmdCheck, CmdBuild}

\* every caller in the repository passes None
TimeoutDurations == {None}

\* lines the child writes to stdout: plain, blank, a prompt
LinePlain == <<"o", "k">>
LineBlank == << >>
LineQuestion == <<"o", "k", "?", " ">>
OutLineSet == {LinePlain, LineBlank, LineQuestion}

\* lines the child writes to stderr: plain, and one that looks like a prompt
LineWarn == <<"w">>
ErrLineSet == {LineWarn, PatPrompt}

\* a byte that occurs in no UTF-8 encoding, and a line that holds it
InvalidByte == "0xFF"
LineUndecodable == <<"o", InvalidByte>>

\* String::from_utf8 inside next_line() succeeds on the bytes of the line
ValidUtf8(line) == \A i \in 1..Len(line) : line[i] # InvalidByte

\* text passed to send_input
FragYes == <<"y", NL>>
FragNo == <<"n", NL>>
NoInput == [id |-> 0, text |-> EmptyText]

\* the Result of Command::output() in cargo_autodd, before it is computed
NotRun == [tag |-> "None", stdout |-> EmptyText]
\* Command::output() fails: cargo could not be started
ProbeErr == [tag |-> "Err", stdout |-> EmptyText]
\* stdout of `cargo --list`: without autodd, with autodd, and with only
\* another external subcommand whose name begins with autodd
ListWithout == <<"f", "m", "t", NL>>
ListWith == <<"f", "m", "t", NL>> \o CmdAutodd \o <<NL>>
ListSimilar == <<"f", "m", "t", NL>> \o CmdAutodd \o <<"-", "x", NL>>
ProbeOutputs ==
    {ProbeErr} \cup {[tag |-> "Ok", stdout |-> l] : l \in {ListWithout, ListWith, ListSimilar}}

Init ==
    /\ pc = "idle"
    /\ session = 0
    /\ command = EmptyText
    /\ command_timeout = 0
    /\ process_status = <<FALSE, FALSE>>
    /\ collected = "none"
    /\ result = NoResult
    /\ lua_result = NoResult
    /\ elapsed = 0
    /\ collectStart = 0
    /\ child = "none"
    /\ exit_success = FALSE
    /\ held = FALSE
    /\ stdoutLines = << >>
    /\ stdoutRead = 0
    /\ stdoutClosed = FALSE
    /\ stderrLines = << >>
    /\ stderrRead = 0
    /\ stderrClosed = FALSE
    /\ childStdin = << >>
    /\ aggPc = "none"
    /\ combined_output = EmptyText
    /\ is_interactive = FALSE
    /\ aggTimedOut = FALSE
    /\ INPUT_SENDER = 0
    /\ queue = << >>
    /\ relayPc = "none"
    /\ relayInput = NoInput
    /\ sendLog = << >>
    /\ timeout_arg = None
    /\ check_output = NotRun
    /\ interrupts = 0
    /\ detached = "none"

\* the runtime is inside block_on: the spawned tasks are polled
Active == pc \in {"wait", "collect"}

----------------------------------------------------------------------------
(* execute_cargo_command_internal up to the select at 208 *)

\* is_interactive without the assignment at 104-107
InitialInteractiveMutFalse(cmd) == FALSE

\* is_interactive as initialised at 101-107; the copy kept by the caller
InitialInteractive(cmd) == cmd = CmdRun

\* the value returned for a failed spawn, as a success with no output
SpawnErrorMutOk(cmd, e) == Ok(EmptyText, FALSE)

\* map_err(|e| LuaError::RuntimeError(format!(..)))?, cargo_commands.rs:88-90
SpawnError(cmd, e) == Err(SpawnFailedMessage(cmd, e))

\* the slot after a failed spawn, had the channel been created and its
\* sender installed before cmd.spawn()
SenderAfterFailedSpawnMutInstalled(slot, sender) == sender

\* the slot after a failed spawn: the `?` at 90 returns before the channel
\* is created at 113 and set_input_sender is called at 114
SenderAfterFailedSpawn(slot, sender) == slot

\* cmd.spawn() fails, cargo_commands.rs:88-90, and the `?` returns
SpawnFails(cmd, timeout_duration, has_proconio) ==
    /\ pc = "idle"
    /\ pc' = "returned"
    /\ command' = cmd
    /\ command_timeout' = CommandTimeout(cmd, timeout_duration)
    /\ result' = SpawnError(cmd, OsErrorNotFound)
    /\ lua_result' = CargoEntry(cmd, result', has_proconio)
    /\ timeout_arg' = timeout_duration
    /\ INPUT_SENDER' = SenderAfterFailedSpawn(INPUT_SENDER, session + 1)
    /\ UNCHANGED <<session, process_status, collected, elapsed, collectStart>>
    /\ UNCHANGED <<childVars, aggVars>>
    /\ UNCHANGED <<queue, relayPc, relayInput, sendLog, childStdin>>
    /\ UNCHANGED <<check_output, interrupts, detached>>

\* the buffer the relay reads from, with the channel of the call before kept
NewChannelMutKeep(q) == q

\* mpsc::channel::<String>(32) at 113: the session's channel is a new, empty
\* one, and set_input_sender replaces the sender of the channel before
NewChannel(q) == << >>

\* the slot after a set_input_sender that fills only an empty slot
SetInputSenderMutKeepFirst(slot, sender) == IF slot = 0 THEN sender ELSE slot

\* set_input_sender, lua_exports.rs:11-14: *guard = Some(sender), whatever
\* the slot held; the slot is an Option, so it holds one sender or none
SetInputSender(slot, sender) == sender

\* cmd.spawn() succeeds; 92-205: the streams are taken, the channel is
\* created and its sender installed, both tasks are spawned
SpawnChild(cmd, timeout_duration) ==
    /\ pc = "idle"
    /\ pc' = "wait"
    /\ session' = session + 1
    /\ command' = cmd
    /\ command_timeout' = CommandTimeout(cmd, timeout_duration)
    /\ elapsed' = 0
    /\ child' = "running"
    /\ held' = FALSE
    /\ stdoutLines' = << >> /\ stdoutRead' = 0 /\ stdoutClosed' = FALSE
    /\ stderrLines' = << >> /\ stderrRead' = 0 /\ stderrClosed' = FALSE
    /\ childStdin' = << >>
    /\ aggPc' = "select"
    /\ combined_output' = EmptyText
    /\ is_interactive' = InitialInteractive(cmd)
    /\ aggTimedOut' = FALSE
    /\ queue' = NewChannel(queue)
    /\ INPUT_SENDER' = SetInputSender(INPUT_SENDER, session + 1)
    /\ relayPc' = "recv"
    /\ relayInput' = NoInput
    /\ timeout_arg' = timeout_duration
    /\ detached' = IF aggPc = "select" THEN "select" ELSE detached
    /\ UNCHANGED <<process_status, collected, result, lua_result, collectStart,
                   exit_success, sendLog, interrupts>>

\* an entry point other than cargo_autodd calls execute_cargo_command_internal
\* and the spawn succeeds
Spawn(cmd, timeout_duration) ==
    /\ SpawnChild(cmd, timeout_duration)
    /\ UNCHANGED check_output

\* `cargo --list` prints one line per subcommand; an external subcommand is
\* listed when its cargo-<name> executable is installed
Installed(list) == \E k \in 1..Len(Lines(list)) : Lines(list)[k] = CmdAutodd

\* cargo_autodd, cargo_commands.rs:445-475 (the build that is not cfg(test)):
\* `cargo --list` is run first; if it cannot be run, or if its output does
\* not contain "autodd", the call returns an error, else the autodd child
\* is spawned
CargoAutodd(probe) ==
    /\ pc = "idle"
    /\ check_output' = probe
    /\ IF probe.tag = "Err" \/ ~Contains(probe.stdout, CmdAutodd)
       THEN /\ pc' = "returned"
            /\ command' = CmdAutodd
            /\ lua_result' = IF probe.tag = "Err"
                             THEN Err(TxtFailedToCheck \o OsErrorNotFound)
                             ELSE Err(TxtInstallHint)
            /\ UNCHANGED <<session, command_timeout, process_status, collected,
                           result, elapsed, collectStart>>
            /\ UNCHANGED <<childVars, aggVars, relayVars>>
            /\ UNCHANGED <<timeout_arg, interrupts, detached>>
       ELSE SpawnChild(CmdAutodd, None)

----------------------------------------------------------------------------
(* The child and whoever inherited its pipes *)

WriterAlive == child = "running" \/ held

\* the read end of the stdin pipe is open
StdinOpen == child = "running" \/ held

ChildWriteStdout(line) ==
    /\ Active /\ WriterAlive /\ ~stdoutClosed
    /\ Len(stdoutLines) + Len(stderrLines) < MaxLines
    /\ stdoutLines' = Append(stdoutLines, line)
    /\ UNCHANGED <<child, exit_success, held, stdoutClosed, stderrLines, stderrClosed>>
    /\ UNCHANGED <<sessionVars, aggVars, relayVars>>
    /\ UNCHANGED callerVars

ChildWriteStderr(line) ==
    /\ Active /\ WriterAlive /\ ~stderrClosed
    /\ Len(stdoutLines) + Len(stderrLines) < MaxLines
    /\ stderrLines' = Append(stderrLines, line)
    /\ UNCHANGED <<child, exit_success, held, stdoutLines, stdoutClosed, stderrClosed>>
    /\ UNCHANGED <<sessionVars, aggVars, relayVars>>
    /\ UNCHANGED callerVars

\* the last write end of stdout is closed while the other pipe stays open
CloseStdout ==
    /\ Active /\ WriterAlive /\ ~stdoutClosed
    /\ stdoutClosed' = TRUE
    /\ UNCHANGED <<child, exit_success, held, stdoutLines, stderrLines, stderrClosed>>
    /\ UNCHANGED <<sessionVars, aggVars, relayVars>>
    /\ UNCHANGED callerVars

CloseStderr ==
    /\ Active /\ WriterAlive /\ ~stderrClosed
    /\ stderrClosed' = TRUE
    /\ UNCHANGED <<child, exit_success, held, stdoutLines, stdoutClosed, stderrLines>>
    /\ UNCHANGED <<sessionVars, aggVars, relayVars>>
    /\ UNCHANGED callerVars

\* the child exits by itself; its pipe ends close unless another process
\* (one cargo started, which inherited them) still holds them
ChildExit(success, inherited) ==
    /\ Active /\ child = "running"
    /\ child' = "exited"
    /\ exit_success' = success
    /\ held' = inherited
    /\ stdoutClosed' = (stdoutClosed \/ ~inherited)
    /\ stderrClosed' = (stderrClosed \/ ~inherited)
    /\ UNCHANGED <<stdoutLines, stderrLines>>
    /\ UNCHANGED <<sessionVars, aggVars, relayVars>>
    /\ UNCHANGED callerVars

----------------------------------------------------------------------------
(* output_handle: the output aggregator, cargo_commands.rs:136-205 *)

\* the flag after a stdout line, with the flag recomputed for every line
NextFlagMutReset(flag, line) == Detect(line)

\* the flag after a stdout line, 153-162
NextFlag(flag, line) == IF ~flag /\ Detect(line) THEN TRUE ELSE flag

\* combined_output.push_str(&line); combined_output.push('\n')
PushLine(out, line) == out \o line \o <<NL>>

\* the two tests that follow the select!, 190-201: the loop returns
LoopTimedOut(flag) ==
    \/ elapsed >= command_timeout
    \/ flag /\ elapsed >= command_timeout * InteractiveFactor

\* stdout_reader.next_line() yields Ok(Some(line)), 149-166
AggStdoutLine ==
    /\ Active /\ aggPc = "select"
    /\ stdoutRead < Len(stdoutLines)
    /\ ValidUtf8(stdoutLines[stdoutRead + 1])
    /\ LET line == stdoutLines[stdoutRead + 1]
           flag == NextFlag(is_interactive, line)
       IN  /\ is_interactive' = flag
           /\ combined_output' = PushLine(combined_output, line)
           /\ stdoutRead' = stdoutRead + 1
           /\ aggPc' = IF LoopTimedOut(flag) THEN "done" ELSE "select"
           /\ aggTimedOut' = LoopTimedOut(flag)
    /\ UNCHANGED stderrRead
    /\ UNCHANGED <<sessionVars, childVars, relayVars>>
    /\ UNCHANGED callerVars

\* stdout_reader.next_line() yields Ok(None): break, 167
AggStdoutEof ==
    /\ Active /\ aggPc = "select"
    /\ stdoutRead = Len(stdoutLines) /\ stdoutClosed
    /\ aggPc' = "done"
    /\ aggTimedOut' = FALSE
    /\ UNCHANGED <<combined_output, is_interactive, stdoutRead, stderrRead>>
    /\ UNCHANGED <<sessionVars, childVars, relayVars>>
    /\ UNCHANGED callerVars

\* the flag after a stderr line, had the arm the test of the stdout arm
FlagAfterStderrMutEvaluated(flag, line) == IF ~flag /\ Detect(line) THEN TRUE ELSE flag

\* the flag after a stderr line, 175-178: the arm has no test and no
\* assignment to is_interactive
FlagAfterStderr(flag, line) == flag

\* stderr_reader.next_line() yields Ok(Some(line)), 173-178
AggStderrLine ==
    /\ Active /\ aggPc = "select"
    /\ stderrRead < Len(stderrLines)
    /\ ValidUtf8(stderrLines[stderrRead + 1])
    /\ LET line == stderrLines[stderrRead + 1]
           flag == FlagAfterStderr(is_interactive, line)
       IN  /\ is_interactive' = flag
           /\ combined_output' = PushLine(combined_output, line)
           /\ stderrRead' = stderrRead + 1
           /\ aggPc' = IF LoopTimedOut(flag) THEN "done" ELSE "select"
           /\ aggTimedOut' = LoopTimedOut(flag)
    /\ UNCHANGED stdoutRead
    /\ UNCHANGED <<sessionVars, childVars, relayVars>>
    /\ UNCHANGED callerVars

\* stderr_reader.next_line() yields Ok(None): nothing is read, the loop goes on, 179
AggStderrEof ==
    /\ Active /\ aggPc = "select"
    /\ stderrRead = Len(stderrLines) /\ stderrClosed
    /\ aggPc' = IF LoopTimedOut(is_interactive) THEN "done" ELSE "select"
    /\ aggTimedOut' = LoopTimedOut(is_interactive)
    /\ UNCHANGED <<combined_output, is_interactive, stdoutRead, stderrRead>>
    /\ UNCHANGED <<sessionVars, childVars, relayVars>>
    /\ UNCHANGED callerVars

\* stdout_reader.next_line() yields Err(_), 168: the reader has consumed the
\* bytes of a line that is not UTF-8 and returns InvalidData; break
AggStdoutErr ==
    /\ Active /\ aggPc = "select"
    /\ stdoutRead < Len(stdoutLines)
    /\ ~ValidUtf8(stdoutLines[stdoutRead + 1])
    /\ stdoutRead' = stdoutRead + 1
    /\ aggPc' = "done"
    /\ aggTimedOut' = FALSE
    /\ UNCHANGED <<combined_output, is_interactive, stderrRead>>
    /\ UNCHANGED <<sessionVars, childVars, relayVars>>
    /\ UNCHANGED callerVars

\* stderr_reader.next_line() yields Err(_), 180: the reader has consumed the
\* bytes of a line that is not UTF-8 and returns InvalidData; the arm is
\* empty, so nothing is appended and the loop goes on to the next line
AggStderrErr ==
    /\ Active /\ aggPc = "select"
    /\ stderrRead < Len(stderrLines)
    /\ ~ValidUtf8(stderrLines[stderrRead + 1])
    /\ stderrRead' = stderrRead + 1
    /\ aggPc' = IF LoopTimedOut(is_interactive) THEN "done" ELSE "select"
    /\ aggTimedOut' = LoopTimedOut(is_interactive)
    /\ UNCHANGED <<combined_output, is_interactive, stdoutRead>>
    /\ UNCHANGED <<sessionVars, childVars, relayVars>>
    /\ UNCHANGED callerVars

\* the sleep branch of the select!, 185-187: timeout_remaining has passed
AggSleep ==
    /\ Active /\ aggPc = "select"
    /\ ~is_interactive
    /\ elapsed >= command_timeout
    /\ aggPc' = "done"
    /\ aggTimedOut' = TRUE
    /\ UNCHANGED <<combined_output, is_interactive, stdoutRead, stderrRead>>
    /\ UNCHANGED <<sessionVars, childVars, relayVars>>
    /\ UNCHANGED callerVars

\* a branch of the aggregator's select! other than the end of stderr is ready
AggReady ==
    /\ aggPc = "select"
    /\ \/ stdoutRead < Len(stdoutLines)
       \/ stdoutClosed
       \/ stderrRead < Len(stderrLines)
       \/ ~is_interactive /\ elapsed >= command_timeout

----------------------------------------------------------------------------
(* stdin_handle: the input relay, cargo_commands.rs:117-133 *)

\* rx.recv() yields Some(input)
RelayRecv ==
    /\ Active /\ relayPc = "recv"
    /\ queue # << >>
    /\ relayInput' = Head(queue)
    /\ queue' = Tail(queue)
    /\ relayPc' = "write"
    /\ UNCHANGED <<INPUT_SENDER, sendLog, childStdin>>
    /\ UNCHANGED <<sessionVars, childVars, aggVars>>
    /\ UNCHANGED callerVars

\* what the child's stdin holds after a write that wrote the fragment twice
WriteAllMutTwice(written, input) == written \o <<input, input>>

\* stdin.write_all(input.as_bytes()) followed by stdin.flush()
WriteAll(written, input) == Append(written, input)

\* write_all and flush return Ok
RelayWriteOk ==
    /\ Active /\ relayPc = "write"
    /\ StdinOpen
    /\ childStdin' = WriteAll(childStdin, relayInput)
    /\ relayInput' = NoInput
    /\ relayPc' = "recv"
    /\ UNCHANGED <<INPUT_SENDER, queue, sendLog>>
    /\ UNCHANGED <<sessionVars, childVars, aggVars>>
    /\ UNCHANGED callerVars

\* the relay after a failed write, had the loop gone on to the next fragment
AfterWriteErrorMutContinue(state) == "recv"

\* the relay after a failed write or flush: break at 124 and 129, the loop
\* and with it the task ends
AfterWriteError(state) == "failed"

\* write_all returns Err (the read end is closed): break, and the task ends
RelayWriteFails ==
    /\ Active /\ relayPc = "write"
    /\ ~StdinOpen
    /\ relayInput' = NoInput
    /\ relayPc' = AfterWriteError(relayPc)
    /\ UNCHANGED <<INPUT_SENDER, queue, sendLog, childStdin>>
    /\ UNCHANGED <<sessionVars, childVars, aggVars>>
    /\ UNCHANGED callerVars

----------------------------------------------------------------------------
(* send_input, lua_exports.rs:202-208 *)

\* try_send on a channel without a capacity limit
TrySendMutUnbounded(q, closed, frag) ==
    IF closed THEN [queue |-> q, sent |-> "closed"]
    ELSE [queue |-> Append(q, frag), sent |-> "queued"]

\* try_send on a channel that hands out the newest fragment first
TrySendMutLifo(q, closed, frag) ==
    IF closed THEN [queue |-> q, sent |-> "closed"]
    ELSE IF Len(q) >= ChannelCapacity THEN [queue |-> q, sent |-> "full"]
    ELSE [queue |-> <<frag>> \o q, sent |-> "queued"]

\* sender.try_send(input): Err(Closed) once the receiver is dropped, Err(Full)
\* when the buffer holds its capacity, else the fragment is queued
TrySend(q, closed, frag) ==
    IF closed THEN [queue |-> q, sent |-> "closed"]
    ELSE IF Len(q) >= ChannelCapacity THEN [queue |-> q, sent |-> "full"]
    ELSE [queue |-> Append(q, frag), sent |-> "queued"]

\* the receiver is dropped when the relay task has ended
ReceiverDropped == relayPc = "failed"

SendInput(text, maxSends) ==
    /\ Len(sendLog) < maxSends
    /\ LET id == Len(sendLog) + 1
           r == IF INPUT_SENDER = 0
                THEN [queue |-> queue, sent |-> "no_sender"]
                ELSE TrySend(queue, ReceiverDropped, [id |-> id, text |-> text])
       IN  /\ queue' = r.queue
           /\ sendLog' = Append(sendLog,
                  [text |-> text, sent |-> r.sent,
                   relayRunning |-> relayPc \in {"recv", "write"},
                   session |-> IF Active THEN session ELSE 0,
                   returned |-> "Ok"])
    /\ UNCHANGED <<INPUT_SENDER, relayPc, relayInput, childStdin>>
    /\ UNCHANGED <<sessionVars, childVars, aggVars>>
    /\ UNCHANGED callerVars

----------------------------------------------------------------------------
(* The supervisor: the select! at 208-220 *)

\* child.wait() yields Ok(s)
SupWaitExit ==
    /\ pc = "wait" /\ child = "exited"
    /\ process_status' = <<exit_success, FALSE>>
    /\ pc' = "collect"
    /\ collectStart' = elapsed
    /\ UNCHANGED <<session, command, command_timeout, collected, result,
                   lua_result, elapsed>>
    /\ UNCHANGED <<childVars, aggVars, relayVars>>
    /\ UNCHANGED callerVars

\* child.wait() yields Err(_)
SupWaitErr ==
    /\ pc = "wait" /\ child = "exited"
    /\ process_status' = <<FALSE, FALSE>>
    /\ pc' = "collect"
    /\ collectStart' = elapsed
    /\ UNCHANGED <<session, command, command_timeout, collected, result,
                   lua_result, elapsed>>
    /\ UNCHANGED <<childVars, aggVars, relayVars>>
    /\ UNCHANGED callerVars

\* the branch at 215-219 with the kill left out
KillMutNoKill(state) == state

\* child.kill().await: a running child is killed and reaped
Kill(state) == IF state = "running" THEN "killed" ELSE state

\* sleep(command_timeout) completes first: the child is killed; its pipe ends
\* close unless another process inherited them
SupDeadline(inherited) ==
    /\ pc = "wait" /\ elapsed >= command_timeout
    /\ child' = Kill(child)
    /\ IF child = "running" /\ child' # "running"
       THEN /\ held' = inherited
            /\ stdoutClosed' = (stdoutClosed \/ ~inherited)
            /\ stderrClosed' = (stderrClosed \/ ~inherited)
       ELSE UNCHANGED <<held, stdoutClosed, stderrClosed>>
    /\ process_status' = <<FALSE, TRUE>>
    /\ pc' = "collect"
    /\ collectStart' = elapsed
    /\ UNCHANGED <<exit_success, stdoutLines, stderrLines>>
    /\ UNCHANGED <<session, command, command_timeout, collected, result,
                   lua_result, elapsed>>
    /\ UNCHANGED <<aggVars, relayVars>>
    /\ UNCHANGED callerVars

----------------------------------------------------------------------------
(* 222-256: the aggregator's result is collected, the relay is aborted, the *)
(* result is built and the entry point post-processes it                    *)

\* stdin_handle.abort(): a task that has ended stays as it is
Abort(state) == IF state \in {"recv", "write"} THEN "aborted" ELSE state

Finish(final_output, is_interactive_mode, has_proconio, arm) ==
    /\ collected' = arm
    /\ result' = ProcessResults(command, command_timeout, process_status[1],
                                process_status[2], final_output,
                                is_interactive_mode)
    /\ lua_result' = CargoEntry(command, result', has_proconio)
    /\ relayPc' = Abort(relayPc)
    /\ pc' = "returned"
    /\ UNCHANGED <<session, command, command_timeout, process_status, elapsed,
                   collectStart>>
    /\ UNCHANGED <<INPUT_SENDER, queue, relayInput, sendLog, childStdin>>
    /\ UNCHANGED <<childVars, aggVars>>
    /\ UNCHANGED callerVars

\* the await at 223 without the timeout around output_handle
CollectExpiredMutNever(now, start) == FALSE

\* tokio::time::timeout(Duration::from_secs(5), output_handle) gives up
CollectExpired(now, start) == now >= start + CollectTimeoutSecs

\* the await at 223 yields Ok(Ok((out, interactive, _)))
ReturnCollected(has_proconio) ==
    /\ pc = "collect" /\ aggPc = "done"
    /\ Finish(combined_output, is_interactive, has_proconio, "task")

\* the 5 s pass before the aggregator ends: the `_` arm at 226 takes the
\* caller's own output and is_interactive, which the task never wrote to
ReturnFallback(has_proconio) ==
    /\ pc = "collect" /\ aggPc # "done"
    /\ CollectExpired(elapsed, collectStart)
    /\ Finish(EmptyText, InitialInteractive(command), has_proconio, "fallback")

----------------------------------------------------------------------------
(* Time.  Handlers take no time: the clock advances only when no task has   *)
(* a ready step (the end of stderr, which the aggregator polls in a loop,   *)
(* aside).                                                                  *)

SupervisorReady ==
    \/ pc = "wait" /\ (child = "exited" \/ elapsed >= command_timeout)
    \/ pc = "collect" /\ (aggPc = "done" \/ CollectExpired(elapsed, collectStart))

RelayReady ==
    \/ relayPc = "recv" /\ queue # << >>
    \/ relayPc = "write"

Tick ==
    /\ Active
    /\ ~SupervisorReady /\ ~AggReady /\ ~RelayReady
    /\ elapsed < MaxClockSecs
    /\ elapsed' = elapsed + TickSecs
    /\ UNCHANGED <<pc, session, command, command_timeout, process_status,
                   collected, result, lua_result, collectStart>>
    /\ UNCHANGED <<childVars, aggVars, relayVars>>
    /\ UNCHANGED callerVars

----------------------------------------------------------------------------
(* The session specification: one call of a command's entry point, with the *)
(* child, both tasks, the supervisor, the clock and send_input.             *)

Proconio(cmd) == IF cmd = CmdRun THEN BOOLEAN ELSE {FALSE}

Call ==
    \E cmd \in Commands, t \in TimeoutDurations :
        \/ Spawn(cmd, t)
        \/ \E p \in Proconio(cmd) : SpawnFails(cmd, t, p)

ChildStep ==
    \/ \E line \in OutLineSet : ChildWriteStdout(line)
    \/ \E line \in ErrLineSet : ChildWriteStderr(line)
    \/ CloseStdout
    \/ CloseStderr
    \/ \E success \in BOOLEAN, inherited \in BOOLEAN : ChildExit(success, inherited)

AggStep ==
    \/ AggStdoutLine
    \/ AggStdoutEof
    \/ AggStderrLine
    \/ AggStderrEof
    \/ AggSleep

RelayStep ==
    \/ RelayRecv
    \/ RelayWriteOk
    \/ RelayWriteFails

SupStep ==
    \/ SupWaitExit
    \/ SupWaitErr
    \/ \E inherited \in BOOLEAN : SupDeadline(inherited)

Return ==
    \E p \in Proconio(command) :
        \/ ReturnCollected(p)
        \/ ReturnFallback(p)

Next ==
    \/ Call
    \/ ChildStep
    \/ AggStep
    \/ SupStep
    \/ Return
    \/ Tick

Spec == Init /\ [][Next]_vars

----------------------------------------------------------------------------
(* The input specification: send_input, the channel and the relay of a      *)
(* session whose child writes nothing, up to the teardown at 229-233.       *)
(* send_input is called once a sender is installed.                         *)

InputCommands == {CmdRun, CmdBuild}

InputStep(texts, maxSends) ==
    \/ \E cmd \in InputCommands : Spawn(cmd, None)
    \/ \E text \in texts : INPUT_SENDER # 0 /\ SendInput(text, maxSends)
    \/ RelayStep
    \/ \E success \in BOOLEAN, inherited \in BOOLEAN : ChildExit(success, inherited)
    \/ AggStdoutEof
    \/ SupWaitExit
    \/ \E p \in Proconio(command) : ReturnCollected(p)

\* enough calls to fill the channel
NextInput == InputStep({FragYes}, MaxQueueSends)

SpecInput == Init /\ [][NextInput]_vars

\* a few calls with different texts; the runtime polls a task whose await
\* is ready, so the relay's steps are weakly fair
NextRelay == InputStep({FragYes, FragNo}, MaxSends)

SpecRelay ==
    /\ Init
    /\ [][NextRelay]_vars
    /\ WF_vars(RelayRecv)
    /\ WF_vars(RelayWriteOk)
    /\ WF_vars(RelayWriteFails)

----------------------------------------------------------------------------
(* The sessions specification: cargo_build called several times, one call   *)
(* after the other on the same runtime, with send_input called at any       *)
(* moment (before the first call, during a call, between calls).  The child *)
(* writes nothing.                                                          *)

\* the caller calls an entry point again after the call before has returned
CallAgain ==
    /\ pc = "returned"
    /\ session < MaxSessions
    /\ pc' = "idle"
    /\ UNCHANGED <<session, command, command_timeout, process_status, collected,
                   result, lua_result, elapsed, collectStart>>
    /\ UNCHANGED <<childVars, aggVars, relayVars, callerVars>>

\* interrupt, lua_exports.rs:195-198: the closure returns Ok(()) and does
\* nothing else
Interrupt ==
    /\ interrupts < MaxInterrupts
    /\ interrupts' = interrupts + 1
    /\ UNCHANGED <<timeout_arg, check_output, detached>>
    /\ UNCHANGED <<sessionVars, childVars, aggVars, relayVars>>

\* the output_handle of an earlier call, which timeout() at 223 gave up on:
\* dropping its JoinHandle does not cancel it, so the runtime polls it again
\* inside the block_on of a later call; here its select! completes and the
\* task ends (the process holding the old pipes closes them, or the old
\* deadline passes)
DetachedAggStep ==
    /\ Active
    /\ detached = "select"
    /\ detached' = "done"
    /\ UNCHANGED <<timeout_arg, check_output, interrupts>>
    /\ UNCHANGED <<sessionVars, childVars, aggVars, relayVars>>

NextSessions ==
    \/ Spawn(CmdBuild, None)
    \/ \E text \in {FragYes} : SendInput(text, MaxSends)
    \/ RelayStep
    \/ \E success \in BOOLEAN, inherited \in BOOLEAN : ChildExit(success, inherited)
    \/ AggStdoutEof
    \/ AggStderrEof
    \/ AggSleep
    \/ SupStep
    \/ Return
    \/ Tick
    \/ CallAgain
    \/ DetachedAggStep

SpecSessions == Init /\ [][NextSessions]_vars

\* one call, with interrupt called at any moment
NextInterrupt ==
    \/ \E cmd \in InputCommands : Spawn(cmd, None)
    \/ Interrupt
    \/ \E success \in BOOLEAN, inherited \in BOOLEAN : ChildExit(success, inherited)
    \/ AggStdoutEof
    \/ AggStderrEof
    \/ AggSleep
    \/ SupStep
    \/ Return
    \/ Tick

SpecInterrupt == Init /\ [][NextInterrupt]_vars

----------------------------------------------------------------------------
(* The calls specification: one call of any entry point, cargo_autodd       *)
(* included, with or without a timeout supplied to                          *)
(* execute_cargo_command_internal.  The child writes nothing.               *)

AllCommands == {CmdRun, CmdTest, CmdBench, CmdCheck, CmdBuild, CmdHelp}

AllTimeoutDurations == {None} \cup {Some(d) : d \in 1..MaxSuppliedSecs}

NextCalls ==
    \/ \E cmd \in AllCommands, t \in AllTimeoutDurations :
           \/ Spawn(cmd, t)
           \/ \E p \in Proconio(cmd) : SpawnFails(cmd, t, p)
    \/ \E probe \in ProbeOutputs : CargoAutodd(probe)
    \/ \E success \in BOOLEAN, inherited \in BOOLEAN : ChildExit(success, inherited)
    \/ AggStdoutEof
    \/ AggStderrEof
    \/ AggSleep
    \/ SupStep
    \/ Return
    \/ Tick

SpecCalls == Init /\ [][NextCalls]_vars

----------------------------------------------------------------------------
(* The streams specification: one call of cargo_build whose child writes    *)
(* lines to both pipes, some of them not UTF-8, so that next_line() fails.  *)

NextStreams ==
    \/ Spawn(CmdBuild, None)
    \/ \E line \in {LinePlain, LineUndecodable} : ChildWriteStdout(line)
    \/ \E line \in {LineWarn, LineUndecodable} : ChildWriteStderr(line)
    \/ \E success \in BOOLEAN, inherited \in BOOLEAN : ChildExit(success, inherited)
    \/ AggStep
    \/ AggStdoutErr
    \/ AggStderrErr
    \/ SupStep
    \/ Return
    \/ Tick

SpecStreams == Init /\ [][NextStreams]_vars

----------------------------------------------------------------------------
(* The fair specification: one call of cargo_run or cargo_build, with a     *)
(* child that may write, close its pipes, exit, leave its pipes to another  *)
(* process, or do none of these.  The runtime polls a task whose await is   *)
(* ready and the timers fire, so the steps of the aggregator, of the        *)
(* supervisor and of the return, and the clock, are weakly fair; the child  *)
(* owes nothing.                                                            *)

NextFair ==
    \/ \E cmd \in InputCommands : Spawn(cmd, None)
    \/ ChildWriteStdout(LineQuestion)
    \/ ChildWriteStderr(LineWarn)
    \/ CloseStdout
    \/ CloseStderr
    \/ \E success \in BOOLEAN, inherited \in BOOLEAN : ChildExit(success, inherited)
    \/ AggStep
    \/ SupStep
    \/ Return
    \/ Tick

SpecFair ==
    /\ Init
    /\ [][NextFair]_vars
    /\ WF_vars(AggStep)
    /\ WF_vars(SupStep)
    /\ WF_vars(Return)
    /\ WF_vars(Tick)

----------------------------------------------------------------------------
(* The spawn specification: cargo_build called several times, each call's   *)
(* spawn succeeding or failing, with send_input called at any moment.  The  *)
(* child writes nothing and exits by itself.                                *)

NextSpawn ==
    \/ Spawn(CmdBuild, None)
    \/ SpawnFails(CmdBuild, None, FALSE)
    \/ \E text \in {FragYes} : SendInput(text, MaxSends)
    \/ RelayStep
    \/ \E success \in BOOLEAN : ChildExit(success, FALSE)
    \/ AggStdoutEof
    \/ SupWaitExit
    \/ ReturnCollected(FALSE)
    \/ CallAgain

SpecSpawn == Init /\ [][NextSpawn]_vars

----------------------------------------------------------------------------
(* Properties *)

\* the call returned from a session whose child was spawned
ReturnedFromSession == pc = "returned" /\ child # "none"

\* the supervisor's wait won the select and the child's status was not success
ExitedNonZero == child = "exited" /\ ~exit_success /\ ~process_status[2]

\* the supervisor's sleep won the select
DeadlineFired == process_status[2]

IsTimedOutError(r, cmd) ==
    r.tag = "Err" /\ IsPrefix(TxtCargo \o cmd \o TxtTimedOutAfter, r.text)

\* C1: when the child exits non-zero before the deadline and the session's
\* flag is false, the call returns an error whose message contains the
\* command name and the transcript the aggregator captured.
C1_FailedErrorCarriesTranscript ==
    (ReturnedFromSession /\ ExitedNonZero /\ ~is_interactive)
        => /\ result.tag = "Err"
           /\ Contains(result.text, command)
           /\ Contains(result.text, combined_output)

\* C2: when the child exits non-zero while the session's flag is true, the
\* call returns the success result (transcript, true), never an error.
C2_InteractiveNonZeroIsSuccess ==
    (ReturnedFromSession /\ child = "exited" /\ ~exit_success /\ is_interactive)
        => result = Ok(combined_output, TRUE)

\* C3: when the deadline fires and the session's flag is false, the call
\* returns a timed-out error naming the command, and the child is no longer
\* running when it returns.
C3_TimeoutErrorAndChildKilled ==
    (ReturnedFromSession /\ DeadlineFired /\ ~is_interactive)
        => /\ IsTimedOutError(result, command)
           /\ Contains(result.text, Decimal(command_timeout))
           /\ child # "running"

C3_Witness ==
    /\ ReturnedFromSession /\ DeadlineFired /\ ~is_interactive
    /\ child = "killed"
    /\ combined_output # EmptyText
    /\ IsTimedOutError(result, command)

\* C4: when the deadline fires and the aggregator's flag is interactive, the
\* call returns a success result with interactive = true, never a timed-out
\* error.
C4_InteractivityWinsTheRace ==
    (ReturnedFromSession /\ DeadlineFired /\ is_interactive)
        => result.tag = "Ok" /\ result.interactive

\* C5: once the session is interactive, the policy neither kills the child
\* nor stops the aggregator before 3 times the base timeout has elapsed.
C5_InteractiveTimeoutSuspended ==
    [][(Active /\ is_interactive /\ elapsed < InteractiveFactor * command_timeout)
         => /\ child' = "killed" => child = "killed"
            /\ aggTimedOut' => aggTimedOut]_vars

\* some line of the transcript matches one of the five prompt patterns
HasPatternLine(text) ==
    \E k \in 1..Len(Lines(text)) : MatchesPattern(Lines(text)[k])

\* C6: for a command other than run whose child exits with status 0, the
\* returned flag is true exactly when the transcript has a line matching a
\* prompt pattern.
C6_FlagIffPatternLine ==
    (ReturnedFromSession /\ command # CmdRun /\ process_status = <<TRUE, FALSE>>)
        => /\ result.tag = "Ok"
           /\ result.interactive <=> HasPatternLine(result.text)

\* C7: within a session the transcript only grows by appending and the
\* flag, once true, stays true.
C7_AppendOnlyAndSticky ==
    [][session' = session
         => /\ IsPrefix(combined_output, combined_output')
            /\ is_interactive => is_interactive']_vars

C7_Witness ==
    /\ command # CmdRun
    /\ combined_output = PushLine(PushLine(EmptyText, LineQuestion), LinePlain)
    /\ is_interactive

\* C8: cargo_check never returns a success with empty text; when the child
\* exits successfully with an empty transcript the text is the canned
\* message and the flag is the session's.
C8_CheckNeverEmpty ==
    (ReturnedFromSession /\ command = CmdCheck)
        => /\ lua_result.tag = "Ok" => lua_result.text # EmptyText
           /\ (process_status = <<TRUE, FALSE>> /\ combined_output = EmptyText)
                  => lua_result = Ok(FinishedMessage, is_interactive)

C8_Witness ==
    /\ ReturnedFromSession /\ command = CmdCheck
    /\ process_status = <<TRUE, FALSE>>
    /\ combined_output = EmptyText
    /\ lua_result = Ok(FinishedMessage, FALSE)

\* the relay task is alive
RelayRunning == relayPc \in {"recv", "write"}

\* how many times fragment i was written to the child's stdin
WrittenCount(i) == Cardinality({k \in 1..Len(childStdin) : childStdin[k].id = i})

\* fragment i is in the channel or in the relay's hands, and the relay is alive
Pending(i) ==
    /\ RelayRunning
    /\ \/ \E k \in 1..Len(queue) : queue[k].id = i
       \/ relayInput.id = i

\* C9 as claimed: a fragment passed to send_input while the relay is running
\* is written exactly once, unchanged; until then it is on its way.
C9_EverySentFragmentWritten ==
    \A i \in 1..Len(sendLog) :
        sendLog[i].relayRunning
            => \/ WrittenCount(i) = 0 /\ Pending(i)
               \/ /\ WrittenCount(i) = 1
                  /\ \E k \in 1..Len(childStdin) :
                         childStdin[k] = [id |-> i, text |-> sendLog[i].text]

\* C9, amended: a fragment that send_input queues while the relay is running
\* is written to the child's stdin unchanged and at most once, and it is
\* written unless the relay stops first (the abort at return, or a failed
\* write).
C9_QueuedFragmentRelayedOnce ==
    /\ [](\A k \in 1..Len(childStdin) :
             LET f == childStdin[k]
             IN  /\ f.id \in 1..Len(sendLog)
                 /\ sendLog[f.id].sent = "queued"
                 /\ sendLog[f.id].relayRunning
                 /\ f.text = sendLog[f.id].text
                 /\ WrittenCount(f.id) = 1)
    /\ \A i \in 1..MaxSends :
          (Len(sendLog) >= i /\ sendLog[i].sent = "queued" /\ sendLog[i].relayRunning)
              ~> (WrittenCount(i) = 1 \/ ~RelayRunning)

C9_Witness ==
    /\ Len(sendLog) >= 2
    /\ sendLog[1].relayRunning /\ sendLog[2].relayRunning
    /\ childStdin = <<[id |-> 1, text |-> FragYes], [id |-> 2, text |-> FragNo]>>

\* C10: the channel never holds more than its capacity, and a send_input
\* call made when it is full returns normally and leaves it unchanged.
C10_QueueBoundedDropOnFull ==
    /\ [](Len(queue) <= ChannelCapacity)
    /\ [][Len(sendLog') = Len(sendLog) + 1
            => /\ sendLog'[Len(sendLog')].returned = "Ok"
               /\ Len(queue) >= ChannelCapacity
                    => /\ queue' = queue
                       /\ sendLog'[Len(sendLog')].sent \in {"full", "closed"}]_vars

C10_Witness ==
    /\ Len(queue) = ChannelCapacity
    /\ \E i \in 1..Len(sendLog) : sendLog[i].sent = "full"

\* C11: a fragment passed to send_input while no session is active (before
\* the first call, or between two calls) is never written to a child's stdin:
\* whatever a child received was sent while that child's own session was
\* active.
C11_IdleSendNeverDelivered ==
    \A k \in 1..Len(childStdin) :
        /\ childStdin[k].id \in 1..Len(sendLog)
        /\ sendLog[childStdin[k].id].session = session

C11_Witness ==
    /\ session = 2
    /\ Len(sendLog) = 2
    /\ sendLog[1].session = 0 /\ sendLog[1].sent = "queued"
    /\ childStdin = <<[id |-> 2, text |-> FragYes]>>

\* C12: a call whose spawn fails returns at once, without a child and
\* without a second attempt, and what it returns is an error naming the
\* command, never a success.
C12_SpawnFailureIsError ==
    [][(pc = "idle" /\ pc' = "returned")
         => /\ result'.tag = "Err"
            /\ IsPrefix(TxtFailedToExecute \o command', result'.text)
            /\ lua_result'.tag = "Err"
            /\ session' = session
            /\ child' = child /\ aggPc' = aggPc /\ relayPc' = relayPc]_vars

C12_Witness ==
    /\ pc = "returned"
    /\ session = 0 /\ child = "none"
    /\ command = CmdCheck
    /\ lua_result = Err(SpawnFailedMessage(CmdCheck, OsErrorNotFound))

\* execute_cargo_command_internal was entered by the call
Entered == pc # "idle" /\ (child # "none" \/ result # NoResult)

\* C13: the effective timeout is the duration the caller supplied when there
\* is one; otherwise it is fixed by the command name, and it is at least the
\* run default for bench, the same for run and test, and smaller than the run
\* default for every other command.
C13_EffectiveTimeout ==
    Entered =>
        IF timeout_arg # None
        THEN command_timeout = timeout_arg[1]
        ELSE /\ command_timeout = CommandTimeout(command, None)
             /\ command = CmdBench => command_timeout >= CommandTimeout(CmdRun, None)
             /\ command \in {CmdRun, CmdTest}
                   => /\ command_timeout = CommandTimeout(CmdRun, None)
                      /\ command_timeout = CommandTimeout(CmdTest, None)
             /\ command \notin {CmdBench, CmdRun, CmdTest}
                   => command_timeout < CommandTimeout(CmdRun, None)

C13_Witness ==
    /\ pc = "returned"
    /\ command = CmdBench
    /\ timeout_arg = Some(MaxSuppliedSecs)
    /\ command_timeout = MaxSuppliedSecs
    /\ process_status[2]

\* C14: an interrupt() call made while a session is active kills the child
\* and cancels the session's aggregator and relay.
C14_InterruptCancelsSession ==
    [][(interrupts' = interrupts + 1 /\ Active)
         => /\ child' # "running"
            /\ aggPc' # "select"
            /\ relayPc' \notin {"recv", "write"}]_vars

\* C15: cargo_autodd spawns the autodd child only when the extension is
\* installed; when the probe fails or the extension is absent the call returns
\* an error carrying the install hint, and no child is spawned.
C15_AutoddOnlyAfterProbe ==
    (command = CmdAutodd /\ pc # "idle")
        => /\ child # "none"
                 => check_output.tag = "Ok" /\ Installed(check_output.stdout)
           /\ (check_output.tag = "Err" \/ ~Installed(check_output.stdout))
                 => /\ child = "none"
                    /\ pc = "returned"
                    /\ lua_result.tag = "Err"
                    /\ Contains(lua_result.text, TxtInstallHint)

\* C16: every session starts with the flag false, and the flag becomes true
\* only in the step in which the aggregator reads a stdout line on which
\* the heuristic fires.
C16_StartsNonInteractive ==
    [][/\ (pc = "idle" /\ pc' = "wait") => ~is_interactive'
       /\ (~is_interactive /\ is_interactive')
             => /\ session' = session
                /\ stdoutRead' = stdoutRead + 1
                /\ Detect(stdoutLines[stdoutRead'])]_vars

\* C17: when the supervisor's wait for the child's exit wins, the aggregator
\* has read both streams to their end, and the returned text contains every
\* line written to stdout and every line written to stderr.
C17_ExitDrainsBothStreams ==
    (ReturnedFromSession /\ ~process_status[2])
        => /\ stdoutRead = Len(stdoutLines)
           /\ stderrRead = Len(stderrLines)
           /\ \A k \in 1..Len(stdoutLines) :
                  Contains(result.text, PushLine(EmptyText, stdoutLines[k]))
           /\ \A k \in 1..Len(stderrLines) :
                  Contains(result.text, PushLine(EmptyText, stderrLines[k]))

\* C18: when the supervisor's deadline fires, what the call returns contains
\* the transcript the aggregator had gathered.
C18_TimeoutKeepsTranscript ==
    (ReturnedFromSession /\ DeadlineFired)
        => Contains(result.text, combined_output)

\* C19: the result is built from the aggregator's transcript and flag: it is
\* what "Process the results" gives for combined_output and is_interactive,
\* never for an empty transcript or the flag's initial value in their place.
C19_ResultFromAggregator ==
    ReturnedFromSession
        => result = ProcessResults(command, command_timeout, process_status[1],
                                   process_status[2], combined_output,
                                   is_interactive)

\* C20: once the call has returned, neither task of its session takes a
\* step: the relay writes nothing more and the aggregator reads nothing
\* more, now or during a later call.
C20_NoTaskStepAfterReturn ==
    [][/\ (pc \in {"returned", "idle"} /\ session' = session)
             => UNCHANGED <<childStdin, relayPc, relayInput, aggPc,
                            combined_output, stdoutRead, stderrRead>>
       /\ detached' # detached => detached' = "select"]_vars

\* C21: for a command other than run, the aggregator's flag is unchanged by
\* reading a stdout line that is empty or whitespace-only and matches none
\* of the five prompt patterns.
C21_BlankLineRuleRunOnly ==
    [][(/\ session' = session
        /\ command # CmdRun
        /\ stdoutRead' = stdoutRead + 1
        /\ TrimIsEmpty(stdoutLines[stdoutRead'])
        /\ ~MatchesPattern(stdoutLines[stdoutRead']))
         => is_interactive' = is_interactive]_vars

\* C22: reading a stderr line appends the line and a terminator to the
\* transcript and leaves the flag as it was, whatever the line holds; within
\* a session the flag changes only in a step that reads a stdout line.
C22_StderrNeverEvaluated ==
    [][session' = session
         => /\ stderrRead' = stderrRead + 1
                 => /\ is_interactive' = is_interactive
                    /\ combined_output' = PushLine(combined_output, stderrLines[stderrRead'])
            /\ is_interactive' # is_interactive
                 => stdoutRead' = stdoutRead + 1]_vars

C22_Witness ==
    /\ command = CmdBuild
    /\ stderrRead = 1 /\ stderrLines[1] = PatPrompt
    /\ combined_output = PushLine(EmptyText, PatPrompt)
    /\ ~is_interactive

\* t is a merge of a and b that keeps the order of each
RECURSIVE IsInterleaving(_, _, _)
IsInterleaving(t, a, b) ==
    IF t = << >> THEN a = << >> /\ b = << >>
    ELSE \/ a # << >> /\ Head(a) = Head(t) /\ IsInterleaving(Tail(t), Tail(a), b)
         \/ b # << >> /\ Head(b) = Head(t) /\ IsInterleaving(Tail(t), a, Tail(b))

\* C23: the transcript is a merge of the first m lines written to stdout
\* and the first n lines written to stderr, for some m and n, each line in
\* its stream's order, once, and followed by one terminator.
C23_TranscriptInterleavesPrefixes ==
    /\ combined_output # EmptyText => combined_output[Len(combined_output)] = NL
    /\ \E m \in 0..Len(stdoutLines), n \in 0..Len(stderrLines) :
           IsInterleaving(Lines(combined_output), SubSeq(stdoutLines, 1, m),
                          SubSeq(stderrLines, 1, n))

\* the fragments try_send accepted into the channel, in the order of the
\* send_input calls
AcceptedFragments ==
    LET all == [i \in 1..Len(sendLog) |-> [id |-> i, text |-> sendLog[i].text]]
    IN  SelectSeq(all, LAMBDA f : sendLog[f.id].sent = "queued")

\* the bytes of a sequence of fragments, one after the other
RECURSIVE Bytes(_)
Bytes(frags) == IF frags = << >> THEN << >> ELSE Head(frags).text \o Bytes(Tail(frags))

\* C24: what has been written to the child's stdin is, fragment by fragment
\* and byte by byte, the first n accepted fragments in the order they were
\* accepted, for some n.
C24_StdinIsFifoPrefix ==
    \E n \in 0..Len(AcceptedFragments) :
        /\ childStdin = SubSeq(AcceptedFragments, 1, n)
        /\ Bytes(childStdin) = Bytes(SubSeq(AcceptedFragments, 1, n))

C24_Witness ==
    /\ childStdin = <<[id |-> 1, text |-> FragNo]>>
    /\ queue = <<[id |-> 2, text |-> FragYes]>>
    /\ relayPc = "recv"

\* the values the match at 222-227 yields: the aggregator's, or on the
\* fallback arm the caller's own
FinalOutput == IF collected = "task" THEN combined_output ELSE EmptyText

FinalFlag == IF collected = "task" THEN is_interactive ELSE InitialInteractive(command)

\* C25: a failed write ends the relay: in that step and from then on in the
\* session nothing is written to the child's stdin and the relay stays
\* stopped; the result of the call is what the exit status, the deadline,
\* the transcript and the flag give, whether or not a write failed.
C25_WriteFailureStopsRelaySilently ==
    /\ [][session' = session
            => /\ (relayPc = "write" /\ relayPc' # "write" /\ pc' = pc /\ ~StdinOpen)
                     => relayPc' = "failed" /\ childStdin' = childStdin
               /\ relayPc = "failed"
                     => relayPc' = "failed" /\ childStdin' = childStdin]_vars
    /\ [](ReturnedFromSession
            => result = ProcessResults(command, command_timeout, process_status[1],
                                       process_status[2], FinalOutput, FinalFlag))

C25_Witness ==
    /\ ReturnedFromSession
    /\ relayPc = "failed"
    /\ Len(queue) = 1
    /\ childStdin = << >>
    /\ result = Ok(EmptyText, FALSE)

\* C26: the slot holds no sender before the first spawn and, from the first
\* spawn on, the sender of the session spawned last; a send_input call hands
\* its fragment to that sender and to no other, so every fragment in the
\* channel of the active session was sent during that session.
C26_RegistryHoldsLatestSender ==
    /\ [](INPUT_SENDER = session)
    /\ [](Active => \A k \in 1..Len(queue) : sendLog[queue[k].id].session = session)
    /\ [][Len(sendLog') = Len(sendLog) + 1
            => /\ INPUT_SENDER' = INPUT_SENDER
               /\ \/ queue' = queue
                  \/ /\ INPUT_SENDER = session /\ session > 0
                     /\ queue' = Append(queue, [id |-> Len(sendLog'),
                                                text |-> sendLog'[Len(sendLog')].text])]_vars

C26_Witness ==
    /\ session = 2 /\ INPUT_SENDER = 2
    /\ pc = "wait"
    /\ Len(sendLog) = 2
    /\ sendLog[1].session = 1 /\ sendLog[1].sent = "queued"
    /\ queue = <<[id |-> 2, text |-> FragYes]>>

\* C27: cargo_check returns the canned message only when the child exited
\* with status 0 and the transcript is empty, never after a non-zero exit or
\* a kill on timeout, and it returns an error result as it received it.
C27_CannedMessageOnlyOnSuccess ==
    (ReturnedFromSession /\ command = CmdCheck)
        => /\ (lua_result.tag = "Ok" /\ lua_result.text = FinishedMessage)
                 => /\ child = "exited" /\ exit_success
                    /\ process_status = <<TRUE, FALSE>>
                    /\ TrimIsEmpty(combined_output)
           /\ result.tag = "Err" => lua_result = result

\* C28: a call whose child was spawned returns, whatever the child does:
\* also when it never exits, never closes its pipes, or when the pipes stay
\* open after it has been killed.
C28_EveryCallReturns == (pc = "wait") ~> (pc = "returned")

C28_Witness ==
    /\ pc = "returned"
    /\ child = "killed" /\ held
    /\ ~stdoutClosed /\ ~stderrClosed
    /\ aggPc = "select"
    /\ collected = "fallback"

\* the call returned an error of the form "cargo <command> failed: ..."
IsFailedError(r, cmd) ==
    r.tag = "Err" /\ IsPrefix(TxtCargo \o cmd \o TxtFailed, r.text)

\* C29: for a spawned session the result is a timed-out error exactly when
\* the deadline fired and the final flag is false, a command-failed error
\* exactly when the deadline did not fire, the exit was not a success and the
\* final flag is false, and the success (final transcript, final flag)
\* exactly in the remaining cases; the three exclude one another, and a
\* timeout is never reported as command-failed.
C29_ThreeExclusiveOutcomes ==
    ReturnedFromSession
        => LET timedOut == IsTimedOutError(result, command)
               failed == IsFailedError(result, command)
               success == result = Ok(FinalOutput, FinalFlag)
           IN  /\ timedOut <=> (process_status[2] /\ ~FinalFlag)
               /\ failed <=> (~process_status[2] /\ ~process_status[1] /\ ~FinalFlag)
               /\ success <=> ~(~FinalFlag /\ (process_status[2] \/ ~process_status[1]))
               /\ Cardinality({c \in {"t", "f", "s"} :
                                  \/ c = "t" /\ timedOut
                                  \/ c = "f" /\ failed
                                  \/ c = "s" /\ success}) = 1
               /\ process_status[2] => ~failed

C29_Witness ==
    /\ ReturnedFromSession
    /\ process_status = <<FALSE, TRUE>>
    /\ child = "exited" /\ ~exit_success
    /\ IsTimedOutError(result, command)

\* C30: a cargo_run call whose child was spawned returns a success with the
\* flag true, whether the child exits with zero, exits non-zero, or is
\* killed at the deadline; it never returns an error.
C30_RunNeverErrsOnceSpawned ==
    (ReturnedFromSession /\ command = CmdRun)
        => /\ result.tag = "Ok"
           /\ lua_result.tag = "Ok"
           /\ lua_result.interactive

C30_Witness ==
    /\ ReturnedFromSession /\ command = CmdRun
    /\ child = "killed" /\ process_status = <<FALSE, TRUE>>
    /\ collected = "fallback"
    /\ lua_result = Ok(EmptyText, TRUE)

\* C31: once execute_cargo_command_internal has returned from a session, the
\* process-wide slot no longer holds that session's sender.
C31_SenderRemovedAtReturn ==
    ReturnedFromSession => INPUT_SENDER # session

\* C32: a call whose spawn fails leaves the slot holding what it held
\* before the call, creates no channel, and starts neither the relay nor the
\* aggregator: the channel, both tasks and the stdin of the child before are
\* as they were.
C32_FailedSpawnLeavesSharedState ==
    [][(pc = "idle" /\ pc' = "returned")
         => /\ INPUT_SENDER' = INPUT_SENDER
            /\ queue' = queue
            /\ relayPc' = relayPc /\ relayInput' = relayInput
            /\ aggPc' = aggPc /\ detached' = detached
            /\ session' = session
            /\ childStdin' = childStdin]_vars

C32_Witness ==
    /\ pc = "returned"
    /\ result = SpawnError(CmdBuild, OsErrorNotFound)
    /\ session = 1 /\ INPUT_SENDER = 1
    /\ relayPc = "aborted" /\ aggPc = "done"
    /\ Len(queue) = 1

====
